---- MODULE Spec2Model ----
(***************************************************************************)
(* The blazerc option processor of the Blaze launcher                      *)
(* (src/main/cpp/option_processor.cc): discovery of the depot and user     *)
(* .blazerc files, recursive parsing of the files with their imports,      *)
(* merging of the 'startup' options with the command line, and the         *)
(* construction of the argument vector handed to the server.               *)
(*                                                                         *)
(* One invocation of OptionProcessor::ParseOptions is one behaviour.  The  *)
(* recursion of RcFile::Parse is kept as an explicit call stack (frames),  *)
(* one step per line of a file, and the loops of ParseStartupOptions take  *)
(* one step per iteration.  A file is the list of its logical lines, each  *)
(* line the list of words Tokenize returns for it (<<>> for a blank or a   *)
(* comment-only line).                                                     *)
(***************************************************************************)
EXTENDS Integers, Sequences, FiniteSets, TLC

VARIABLES
    input,                    \* the invocation: args, file system, environment
    pc,                       \* position inside ParseOptions
    initialized_,
    args_,
    blazerc,                  \* local of ParseOptions: value of --blazerc or NULL
    use_master_blazerc,       \* local of ParseOptions
    blazercs_,                \* vector<RcFile>
    rcoptions_,               \* map<string, vector<RcOption> >
    frames,                   \* call stack of RcFile::Parse (5 arguments)
    import_stack,             \* list<string> shared by one root's call tree
    parsed_startup_options_,
    i,                        \* loop variable of ParseStartupOptions
    startup_args_,
    command_,
    command_arguments_,
    exit_code,                \* "" or the code die() was called with
    die_msg,                  \* what die() printed
    applied,                  \* history: the calls of ProcessArg, in order
    imports                   \* history: for each RcFile, the file and line
                              \* of the import that added it (-1: a root)

vars == <<input, pc, initialized_, args_, blazerc, use_master_blazerc,
          blazercs_, rcoptions_, frames, import_stack,
          parsed_startup_options_, i, startup_args_, command_,
          command_arguments_, exit_code, die_msg, applied, imports>>

-----------------------------------------------------------------------------
(* Bounds of the checked inputs.                                           *)

MaxTotalLines == 3
MaxStartupWords == 2
MaxArgs == 3

-----------------------------------------------------------------------------
(* Values and paths.                                                       *)

NULL == "(null)"

Workspace == "/ws"
Cwd == "/ws/pkg"
DepotRc == "/ws/tools/blaze.blazerc"
DepotRcFallback == "/ws/../READONLY/google3/tools/blaze.blazerc"
WorkspaceRc == "/ws/.blazerc"
HomeDir == "/home/u"
HomeRc == "/home/u/.blazerc"
FileX == "/x.rc"
FileY == "/y.rc"
FileMissing == "/missing.rc"
ExplicitRc == "/my.rc"

AllPaths == {DepotRc, DepotRcFallback, WorkspaceRc, HomeRc, FileX, FileY,
             FileMissing, ExplicitRc}

Range(s) == {s[k] : k \in 1..Len(s)}

SeqsUpTo(S, n) == UNION {[1..k -> S] : k \in 0..n}

\* blaze_util::JoinPath on the paths the processor joins.
JoinPath(a, b) ==
    CASE a = Workspace /\ b = "tools/blaze.blazerc" -> DepotRc
      [] a = Workspace /\ b = "../READONLY/google3/tools/blaze.blazerc"
            -> DepotRcFallback
      [] a = Workspace /\ b = ".blazerc" -> WorkspaceRc
      [] a = HomeDir /\ b = ".blazerc" -> HomeRc
      [] OTHER -> a \o "/" \o b

\* MakeAbsolute: an absolute path is kept, a relative one is put under cwd.
MakeAbsolute(p) ==
    IF p \in AllPaths THEN p ELSE Cwd \o "/" \o p

\* access(path, R_OK) == 0
Readable(p) == p \in input.readable

\* getenv: the value of the first entry of environ with this name, or NULL.
getenv(name) ==
    LET hits == {k \in 1..Len(input.env) : input.env[k].name = name}
    IN IF hits = {} THEN NULL
       ELSE input.env[CHOOSE k \in hits : \A j \in hits : k <= j].value

-----------------------------------------------------------------------------
(* RcFile and RcOption.                                                    *)

\* An index taken after the push_back instead of before it.
RcFileCountedAfterPush(filename, index) ==
    [filename |-> filename, index |-> index + 1]

RcFile(filename, index) == [filename |-> filename, index |-> index]

\* file, line and word record where the option text was read, and seq how
\* many options had been collected before it (history fields: the code
\* keeps only rcfile_index_ and option_).
RcOption(rcfile_index, option, file, line, word, seq) ==
    [rcfile_index |-> rcfile_index, option |-> option,
     file |-> file, line |-> line, word |-> word, seq |-> seq]

\* std::map keeps its keys in ascending order of std::less<string>; these
\* are the keywords of the checked files, in that order.
Keywords == <<"build", "common", "startup", "test">>

KeyRank(k) == CHOOSE r \in 1..Len(Keywords) : Keywords[r] = k

\* The option put at the front of its group.
MapPushFront(m, command, opt) ==
    [k \in DOMAIN m \cup {command} |->
        IF k = command
        THEN (IF command \in DOMAIN m THEN <<opt>> \o m[command]
              ELSE <<opt>>)
        ELSE m[k]]

\* The option put behind the last option of its group that is from a file
\* of no higher index: a group kept sorted by file.
MapInsertByFileIndex(m, command, opt) ==
    [k \in DOMAIN m \cup {command} |->
        IF k = command
        THEN (IF command \in DOMAIN m
              THEN SelectSeq(m[command],
                             LAMBDA o : o.rcfile_index <= opt.rcfile_index)
                   \o <<opt>>
                   \o SelectSeq(m[command],
                                LAMBDA o : o.rcfile_index > opt.rcfile_index)
              ELSE <<opt>>)
        ELSE m[k]]

\* (*rcoptions)[command].push_back(opt)
MapPushBack(m, command, opt) ==
    [k \in DOMAIN m \cup {command} |->
        IF k = command
        THEN (IF command \in DOMAIN m THEN Append(m[command], opt)
              ELSE <<opt>>)
        ELSE m[k]]

EmptyMap == [k \in {} |-> <<>>]

\* The number of options in the map.
RECURSIVE Collected(_, _)
Collected(m, r) ==
    IF r > Len(Keywords) THEN 0
    ELSE (IF Keywords[r] \in DOMAIN m THEN Len(m[Keywords[r]]) ELSE 0)
         + Collected(m, r + 1)

-----------------------------------------------------------------------------
(* die(): the process exits with the code, nothing else happens.          *)

scanVars == <<initialized_, args_, blazerc, use_master_blazerc>>
parseVars == <<blazercs_, rcoptions_, frames, import_stack, imports>>
startupVars == <<parsed_startup_options_, i, startup_args_, applied>>
outVars == <<command_, command_arguments_>>

die(code, msg) ==
    /\ pc' = "died"
    /\ exit_code' = code
    /\ die_msg' = msg

-----------------------------------------------------------------------------
(* RcFile::Parse.                                                          *)

Parsing == pc \in {"parse_depot", "parse_user"}

Top == frames[Len(frames)]

\* The words of the line the top frame is at (lines[line] after Tokenize).
Words == input.fs[Top.filename][Top.line + 1]

Frame(filename, index) ==
    [filename |-> filename, index |-> index, line |-> 0, read |-> FALSE]

\* RcFile::Parse(rcfiles, rcoptions): a fresh import stack holding the
\* root's own name, then the recursive Parse on the root.
ParseRoot(rcfile) ==
    /\ imports' = Append(imports, [parent |-> -1, line |-> -1])
    /\ import_stack' = <<rcfile.filename>>
    /\ frames' = <<Frame(rcfile.filename, rcfile.index)>>

\* A cycle check against every file registered so far, not only the
\* files being parsed.
OnImportStackAnyFile(stack, name) ==
    \E k \in 1..Len(blazercs_) : blazercs_[k].filename = name

\* A cycle check that looks only at the importing file itself.
OnImportStackSelfOnly(stack, name) == stack[Len(stack)] = name

\* std::find(import_stack->begin(), import_stack->end(), words[1]) != end()
OnImportStack(stack, name) == \E k \in 1..Len(stack) : stack[k] = name

\* The group looked up before the loop over the words: (*rcoptions)[command]
\* makes an empty group for a command without words.
RECURSIVE PushWordsGroupFirst(_, _, _, _, _, _)
PushWordsGroupFirst(m, index, file, line, words, word) ==
    LET g == [k \in DOMAIN m \cup {words[1]} |->
                 IF k \in DOMAIN m THEN m[k] ELSE <<>>]
    IN IF word < Len(words)
       THEN PushWordsGroupFirst(
                MapPushBack(g, words[1],
                            RcOption(index, words[word + 1], file, line, word,
                                     Collected(g, 1))),
                index, file, line, words, word + 1)
       ELSE g

\* for (int word = 1; word < words.size(); ++word)
\*   (*rcoptions)[command].push_back(RcOption(index, words[word]));
RECURSIVE PushWords(_, _, _, _, _, _)
PushWords(m, index, file, line, words, word) ==
    IF word < Len(words)
    THEN PushWords(MapPushBack(m, words[1],
                               RcOption(index, words[word + 1], file, line,
                                        word, Collected(m, 1))),
                   index, file, line, words, word + 1)
    ELSE m

\* ReadFile(filename, &contents), and the split into lines.
ParseReadFile ==
    /\ Parsing /\ ~Top.read
    /\ IF Readable(Top.filename)
       THEN /\ frames' = [frames EXCEPT ![Len(frames)].read = TRUE]
            /\ UNCHANGED <<pc, exit_code, die_msg>>
       ELSE /\ die("INTERNAL_ERROR",
                   [error |-> "Unexpected error reading .blazerc file",
                    file |-> Top.filename])
            /\ UNCHANGED frames
    /\ UNCHANGED <<input, scanVars, blazercs_, rcoptions_, import_stack,
                   imports, startupVars, outVars>>

AtLine == Parsing /\ Top.read /\ Top.line < Len(input.fs[Top.filename])

\* An empty line, or a line without words (a comment): continue.
ParseSkipLine ==
    /\ AtLine /\ Words = <<>>
    /\ frames' = [frames EXCEPT ![Len(frames)].line = @ + 1]
    /\ UNCHANGED <<input, pc, scanVars, blazercs_, rcoptions_, import_stack,
                   imports, startupVars, outVars, exit_code, die_msg>>

\* An import that takes the second word and ignores any further words.
ParseImportIgnoringMoreWords ==
    /\ AtLine /\ Words # <<>> /\ Words[1] = "import"
    /\ IF Len(Words) < 2
       THEN /\ die("BAD_ARGV",
                   [error |-> "Invalid import declaration in .blazerc file",
                    file |-> Top.filename])
            /\ UNCHANGED parseVars
       ELSE IF OnImportStack(import_stack, Words[2])
       THEN /\ die("BAD_ARGV",
                   [error |-> "Import loop detected", loop |-> import_stack])
            /\ UNCHANGED parseVars
       ELSE /\ blazercs_' = Append(blazercs_, RcFile(Words[2], Len(blazercs_)))
            /\ import_stack' = Append(import_stack, Words[2])
            /\ frames' = Append(frames,
                                Frame(blazercs_'[Len(blazercs_')].filename,
                                      blazercs_'[Len(blazercs_')].index))
            /\ imports' = Append(imports, [parent |-> Top.index,
                                            line |-> Top.line])
            /\ UNCHANGED <<rcoptions_, pc, exit_code, die_msg>>
    /\ UNCHANGED <<input, scanVars, startupVars, outVars>>

\* command == "import"
ParseImport ==
    /\ AtLine /\ Words # <<>> /\ Words[1] = "import"
    /\ IF Len(Words) # 2
       THEN /\ die("BAD_ARGV",
                   [error |-> "Invalid import declaration in .blazerc file",
                    file |-> Top.filename])
            /\ UNCHANGED parseVars
       ELSE IF OnImportStack(import_stack, Words[2])
       THEN /\ die("BAD_ARGV",
                   [error |-> "Import loop detected", loop |-> import_stack])
            /\ UNCHANGED parseVars
       ELSE /\ blazercs_' = Append(blazercs_, RcFile(Words[2], Len(blazercs_)))
            /\ import_stack' = Append(import_stack, Words[2])
            /\ frames' = Append(frames,
                                Frame(blazercs_'[Len(blazercs_')].filename,
                                      blazercs_'[Len(blazercs_')].index))
            /\ imports' = Append(imports, [parent |-> Top.index,
                                            line |-> Top.line])
            /\ UNCHANGED <<rcoptions_, pc, exit_code, die_msg>>
    /\ UNCHANGED <<input, scanVars, startupVars, outVars>>

\* The options tagged with the index of the file registered last instead
\* of the index of the file being parsed.
ParseOptionLineOfLastFile ==
    /\ AtLine /\ Words # <<>> /\ Words[1] # "import"
    /\ rcoptions_' = PushWords(rcoptions_, Len(blazercs_) - 1, Top.filename,
                               Top.line, Words, 1)
    /\ frames' = [frames EXCEPT ![Len(frames)].line = @ + 1]
    /\ UNCHANGED <<input, pc, scanVars, blazercs_, import_stack, imports,
                   startupVars, outVars, exit_code, die_msg>>

\* Any other command: its words become options of that command.
ParseOptionLine ==
    /\ AtLine /\ Words # <<>> /\ Words[1] # "import"
    /\ rcoptions_' = PushWords(rcoptions_, Top.index, Top.filename, Top.line,
                               Words, 1)
    /\ frames' = [frames EXCEPT ![Len(frames)].line = @ + 1]
    /\ UNCHANGED <<input, pc, scanVars, blazercs_, import_stack, imports,
                   startupVars, outVars, exit_code, die_msg>>

\* A return from an imported file that leaves its name on the import stack.
ParseReturnWithoutPop ==
    /\ Parsing /\ Top.read /\ Top.line = Len(input.fs[Top.filename])
    /\ IF Len(frames) > 1
       THEN /\ import_stack' = import_stack
            /\ frames' = [SubSeq(frames, 1, Len(frames) - 1)
                            EXCEPT ![Len(frames) - 1].line = @ + 1]
            /\ UNCHANGED pc
       ELSE /\ import_stack' = <<>>
            /\ frames' = <<>>
            /\ pc' = IF pc = "parse_depot" THEN "user" ELSE "startup"
    /\ UNCHANGED <<input, scanVars, blazercs_, rcoptions_, imports,
                   startupVars, outVars, exit_code, die_msg>>

\* The end of the lines: Parse returns.  An imported file returns to the
\* import line of its caller, which pops the import stack and goes on with
\* its next line; a root returns to ParseOptions.
ParseReturn ==
    /\ Parsing /\ Top.read /\ Top.line = Len(input.fs[Top.filename])
    /\ IF Len(frames) > 1
       THEN /\ import_stack' = SubSeq(import_stack, 1, Len(import_stack) - 1)
            /\ frames' = [SubSeq(frames, 1, Len(frames) - 1)
                            EXCEPT ![Len(frames) - 1].line = @ + 1]
            /\ UNCHANGED pc
       ELSE /\ import_stack' = <<>>
            /\ frames' = <<>>
            /\ pc' = IF pc = "parse_depot" THEN "user" ELSE "startup"
    /\ UNCHANGED <<input, scanVars, blazercs_, rcoptions_, imports,
                   startupVars, outVars, exit_code, die_msg>>

-----------------------------------------------------------------------------
(* The startup options (BlazeStartupOptions).                              *)

\* arg starts with "-" (blaze_util::starts_with); the checked tokens.
StartsWithDash ==
    {"--batch", "--nobatch", "--output_base", "--output_base=/p",
     "--blazerc", "--blazerc=/my.rc", "--blazerc=rel.rc",
     "--nomaster_blazerc", "--master_blazerc", "--bogus", "--flag",
     "--help", "-help", "-h", "-c"}

\* Every token with a dash is an arg, the help aliases too.
IsArgWithHelp(arg) == arg \in StartsWithDash

IsArg(arg) ==
    arg \in StartsWithDash /\ arg # "--help" /\ arg # "-help" /\ arg # "-h"

\* The "--key=value" tokens, split at the "=".
InlineValue ==
    {[arg |-> "--output_base=/p", key |-> "--output_base", value |-> "/p"],
     [arg |-> "--blazerc=/my.rc", key |-> "--blazerc", value |-> ExplicitRc],
     [arg |-> "--blazerc=rel.rc", key |-> "--blazerc", value |-> "rel.rc"]}

\* GetUnaryOption: "--key value" gives next_arg (NULL when there is none),
\* "--key=value" gives value, anything else NULL.
GetUnaryOption(arg, next_arg, key) ==
    IF arg = key THEN next_arg
    ELSE IF \E e \in InlineValue : e.arg = arg /\ e.key = key
    THEN (CHOOSE e \in InlineValue : e.arg = arg /\ e.key = key).value
    ELSE NULL

GetNullaryOption(arg, key) == arg = key

\* BlazeStartupOptions::InitDefaults
InitDefaults ==
    [batch |-> FALSE, output_base |-> "", option_sources |-> EmptyMap]

SetSource(sources, name, rcfile) ==
    [k \in DOMAIN sources \cup {name} |->
        IF k = name THEN rcfile ELSE sources[k]]

\* BlazeStartupOptions::ProcessArg: [ok, consumed, opts].  consumed is the
\* return value: arg is unary and its value is next_arg.  An empty
\* next_arg is no next argument.  An unknown option dies (ok = FALSE).
ProcessArg(opts, arg, next_arg, rcfile) ==
    LET next == IF next_arg = "" THEN NULL ELSE next_arg
        src(name) == SetSource(opts.option_sources, name, rcfile)
    IN  IF GetUnaryOption(arg, next, "--output_base") # NULL
        THEN [ok |-> TRUE, consumed |-> (arg = "--output_base"),
              opts |-> [opts EXCEPT
                          !.output_base = GetUnaryOption(arg, next, "--output_base"),
                          !.option_sources = src("output_base")]]
        ELSE IF GetNullaryOption(arg, "--batch")
        THEN [ok |-> TRUE, consumed |-> FALSE,
              opts |-> [opts EXCEPT !.batch = TRUE,
                                    !.option_sources = src("batch")]]
        ELSE IF GetNullaryOption(arg, "--nobatch")
        THEN [ok |-> TRUE, consumed |-> FALSE,
              opts |-> [opts EXCEPT !.batch = FALSE,
                                    !.option_sources = src("batch")]]
        ELSE IF GetNullaryOption(arg, "--nomaster_blazerc")
                \/ GetNullaryOption(arg, "--master_blazerc")
        THEN [ok |-> TRUE, consumed |-> FALSE,
              opts |-> [opts EXCEPT !.option_sources = src("blazerc")]]
        ELSE IF GetUnaryOption(arg, next, "--blazerc") # NULL
        THEN [ok |-> TRUE, consumed |-> (arg = "--blazerc"),
              opts |-> [opts EXCEPT !.option_sources = src("blazerc")]]
        ELSE [ok |-> FALSE, consumed |-> FALSE, opts |-> opts]

-----------------------------------------------------------------------------
(* OptionProcessor::ParseOptions, up to the parsing of the files.          *)

\* 0-based indexing of a vector.
At(v, k) == v[k + 1]

\* The pre-scan of the arguments for --blazerc: the first one that gives a
\* value, over positions i, i + 1, ... of args.
RECURSIVE ScanBlazerc(_, _)
ScanBlazerc(a, k) ==
    IF k >= Len(a) THEN NULL
    ELSE LET next_arg == IF k + 1 < Len(a) THEN At(a, k + 1) ELSE NULL
             v == GetUnaryOption(At(a, k), next_arg, "--blazerc")
         IN IF v # NULL THEN v ELSE ScanBlazerc(a, k + 1)

\* A pre-scan that stops at the command, the first token that is no arg.
ScanUseMasterBeforeCommand(a) ==
    ~ \E k \in 1..(Len(a) - 1) :
         /\ GetNullaryOption(At(a, k), "--nomaster_blazerc")
         /\ \A j \in 1..k : IsArg(At(a, j))

\* The pre-scan for --nomaster_blazerc.
ScanUseMaster(a) ==
    ~ \E k \in 1..(Len(a) - 1) : GetNullaryOption(At(a, k), "--nomaster_blazerc")

PreScan ==
    /\ pc = "start"
    /\ ~initialized_
    /\ initialized_' = TRUE
    /\ args_' = input.args
    /\ blazerc' = ScanBlazerc(input.args, 1)
    /\ use_master_blazerc' = ScanUseMaster(input.args)
    /\ pc' = "depot"
    /\ UNCHANGED <<input, parseVars, startupVars, outVars, exit_code, die_msg>>

FindDepotBlazerc(workspace) ==
    LET first == JoinPath(workspace, "tools/blaze.blazerc")
        second == IF ~Readable(first)
                  THEN JoinPath(workspace,
                                "../READONLY/google3/tools/blaze.blazerc")
                  ELSE first
    IN IF ~Readable(second) THEN "" ELSE second

\* An unreadable file named on the command line falls back to the other
\* places instead of dying.
FindUserBlazercWithFallback(cmdLineRcFile, workspace) ==
    IF cmdLineRcFile # NULL /\ Readable(MakeAbsolute(cmdLineRcFile))
    THEN [die |-> FALSE, path |-> MakeAbsolute(cmdLineRcFile)]
    ELSE IF Readable(JoinPath(workspace, ".blazerc"))
    THEN [die |-> FALSE, path |-> JoinPath(workspace, ".blazerc")]
    ELSE IF getenv("HOME") = NULL
    THEN [die |-> FALSE, path |-> ""]
    ELSE IF Readable(JoinPath(getenv("HOME"), ".blazerc"))
    THEN [die |-> FALSE, path |-> JoinPath(getenv("HOME"), ".blazerc")]
    ELSE [die |-> FALSE, path |-> ""]

\* [die, path]: die when the file named on the command line is unreadable.
FindUserBlazerc(cmdLineRcFile, workspace) ==
    IF cmdLineRcFile # NULL
    THEN [die |-> ~Readable(MakeAbsolute(cmdLineRcFile)),
          path |-> MakeAbsolute(cmdLineRcFile)]
    ELSE IF Readable(JoinPath(workspace, ".blazerc"))
    THEN [die |-> FALSE, path |-> JoinPath(workspace, ".blazerc")]
    ELSE IF getenv("HOME") = NULL
    THEN [die |-> FALSE, path |-> ""]
    ELSE IF Readable(JoinPath(getenv("HOME"), ".blazerc"))
    THEN [die |-> FALSE, path |-> JoinPath(getenv("HOME"), ".blazerc")]
    ELSE [die |-> FALSE, path |-> ""]

\* if (use_master_blazerc) { ... } : the depot file is a root.
DepotBlazerc ==
    /\ pc = "depot"
    /\ IF use_master_blazerc /\ FindDepotBlazerc(Workspace) # ""
       THEN /\ blazercs_' = Append(blazercs_,
                                   RcFile(FindDepotBlazerc(Workspace),
                                          Len(blazercs_)))
            /\ ParseRoot(blazercs_'[Len(blazercs_')])
            /\ pc' = "parse_depot"
       ELSE /\ pc' = "user"
            /\ UNCHANGED <<blazercs_, frames, import_stack, imports>>
    /\ UNCHANGED <<input, scanVars, rcoptions_, startupVars, outVars,
                   exit_code, die_msg>>

\* The user file is a root, after the depot file.
UserBlazerc ==
    /\ pc = "user"
    /\ LET found == FindUserBlazerc(blazerc, Workspace)
       IN IF found.die
          THEN /\ die("BAD_ARGV", [error |-> "Unable to read .blazerc file",
                                   file |-> found.path])
               /\ UNCHANGED <<blazercs_, frames, import_stack, imports>>
          ELSE IF found.path # ""
          THEN /\ blazercs_' = Append(blazercs_,
                                      RcFile(found.path, Len(blazercs_)))
               /\ ParseRoot(blazercs_'[Len(blazercs_')])
               /\ pc' = "parse_user"
               /\ UNCHANGED <<exit_code, die_msg>>
          ELSE /\ pc' = "startup"
               /\ UNCHANGED <<blazercs_, frames, import_stack, imports,
                              exit_code, die_msg>>
    /\ UNCHANGED <<input, scanVars, rcoptions_, startupVars, outVars>>

-----------------------------------------------------------------------------
(* OptionProcessor::ParseStartupOptions.                                   *)

\* startup_options.size() - 1 in size_t: 0 - 1 wraps to the largest value
\* (here the largest integer of the checker).
SizeMinusOne(n) == IF n = 0 THEN 2147483647 ELSE n - 1

Call(from, pos, arg, next_arg, rcfile, r) ==
    [from |-> from, pos |-> pos, arg |-> arg, next_arg |-> next_arg,
     rcfile |-> rcfile, consumed |-> r.consumed, ok |-> r.ok]

\* The loop without the extra i++ for a value that ProcessArg consumed.
ApplyWithoutSkip(from, arg, next_arg, rcfile) ==
    LET r == ProcessArg(parsed_startup_options_, arg, next_arg, rcfile)
    IN /\ applied' = Append(applied, Call(from, i, arg, next_arg, rcfile, r))
       /\ IF r.ok
          THEN /\ parsed_startup_options_' = r.opts
               /\ i' = i + 1
               /\ UNCHANGED <<pc, exit_code, die_msg>>
          ELSE /\ die("BAD_ARGV", [error |-> "Unknown Blaze startup option",
                                   file |-> rcfile, arg |-> arg])
               /\ UNCHANGED <<parsed_startup_options_, i>>

\* parsed_startup_options_->ProcessArg(arg, next_arg, rcfile), then the
\* loop's own i++; an unknown option dies inside ProcessArg.
Apply(from, arg, next_arg, rcfile) ==
    LET r == ProcessArg(parsed_startup_options_, arg, next_arg, rcfile)
    IN /\ applied' = Append(applied, Call(from, i, arg, next_arg, rcfile, r))
       /\ IF r.ok
          THEN /\ parsed_startup_options_' = r.opts
               /\ i' = IF r.consumed THEN i + 2 ELSE i + 1
               /\ UNCHANGED <<pc, exit_code, die_msg>>
          ELSE /\ die("BAD_ARGV", [error |-> "Unknown Blaze startup option",
                                   file |-> rcfile, arg |-> arg])
               /\ UNCHANGED <<parsed_startup_options_, i>>

\* The command line processed first, the rcfile startup options after it.
StartupOrderCommandLineFirst == <<"cmd", "rc">>

\* The two parts of ParseStartupOptions, in the order of its statements:
\* the rcfile startup options, then the command-line args.
StartupOrder == <<"rc", "cmd">>

\* Where the k-th part begins, and its i: the rcfile part is skipped
\* when rcoptions_.find("startup") finds nothing; after the last part
\* ParseStartupOptions returns, to the command.
RECURSIVE PartEntry(_, _)
PartEntry(k, cur) ==
    IF k > Len(StartupOrder) THEN [pc |-> "command", i |-> cur]
    ELSE IF StartupOrder[k] = "cmd" THEN [pc |-> "cmd_loop", i |-> 1]
    ELSE IF "startup" \in DOMAIN rcoptions_ THEN [pc |-> "rc_loop", i |-> 0]
    ELSE PartEntry(k + 1, cur)

AfterPart(part, cur) ==
    PartEntry((CHOOSE k \in 1..Len(StartupOrder) : StartupOrder[k] = part) + 1,
              cur)

\* InitDefaults, and the lookup of the "startup" options.
BeginStartup ==
    /\ pc = "startup"
    /\ parsed_startup_options_' = InitDefaults
    /\ pc' = PartEntry(1, 0).pc
    /\ i' = PartEntry(1, 0).i
    /\ UNCHANGED <<input, scanVars, parseVars, startup_args_, applied,
                   outVars, exit_code, die_msg>>

RcLoopCond == i < SizeMinusOne(Len(rcoptions_["startup"]))

\* Process all elements except the last one.
StartupRcLoop ==
    /\ pc = "rc_loop" /\ RcLoopCond
    /\ LET startup_options == rcoptions_["startup"]
           option == At(startup_options, i)
       IN Apply("rc", option.option, At(startup_options, i + 1).option,
                At(blazercs_, option.rcfile_index).filename)
    /\ UNCHANGED <<input, scanVars, parseVars, startup_args_, outVars>>

\* The last element processed whatever its shape.
StartupRcLastOfAnyShape ==
    /\ pc = "rc_loop" /\ ~RcLoopCond
    /\ LET startup_options == rcoptions_["startup"]
       IN IF i < Len(startup_options)
          THEN /\ LET r == ProcessArg(parsed_startup_options_,
                                      At(startup_options, i).option, "",
                                      At(blazercs_, At(startup_options, i).rcfile_index).filename)
                  IN /\ applied' = Append(applied,
                              Call("rc", i, At(startup_options, i).option, "",
                                   At(blazercs_, At(startup_options, i).rcfile_index).filename, r))
                     /\ IF r.ok
                        THEN /\ parsed_startup_options_' = r.opts
                             /\ i' = AfterPart("rc", i).i
                             /\ pc' = AfterPart("rc", i).pc
                             /\ UNCHANGED <<exit_code, die_msg>>
                        ELSE /\ die("BAD_ARGV",
                                    [error |-> "Unknown Blaze startup option",
                                     file |-> At(blazercs_, At(startup_options, i).rcfile_index).filename,
                                     arg |-> At(startup_options, i).option])
                             /\ UNCHANGED <<parsed_startup_options_, i>>
          ELSE /\ i' = AfterPart("rc", i).i
               /\ pc' = AfterPart("rc", i).pc
               /\ UNCHANGED <<parsed_startup_options_, applied, exit_code,
                              die_msg>>
    /\ UNCHANGED <<input, scanVars, parseVars, startup_args_, outVars>>

\* Process last element, if any; then the command line is next.
StartupRcLast ==
    /\ pc = "rc_loop" /\ ~RcLoopCond
    /\ LET startup_options == rcoptions_["startup"]
       IN IF i < Len(startup_options) /\ IsArg(At(startup_options, i).option)
          THEN /\ LET r == ProcessArg(parsed_startup_options_,
                                      At(startup_options, i).option, "",
                                      At(blazercs_, At(startup_options, i).rcfile_index).filename)
                  IN /\ applied' = Append(applied,
                              Call("rc", i, At(startup_options, i).option, "",
                                   At(blazercs_, At(startup_options, i).rcfile_index).filename, r))
                     /\ IF r.ok
                        THEN /\ parsed_startup_options_' = r.opts
                             /\ i' = AfterPart("rc", i).i
                             /\ pc' = AfterPart("rc", i).pc
                             /\ UNCHANGED <<exit_code, die_msg>>
                        ELSE /\ die("BAD_ARGV",
                                    [error |-> "Unknown Blaze startup option",
                                     file |-> At(blazercs_, At(startup_options, i).rcfile_index).filename,
                                     arg |-> At(startup_options, i).option])
                             /\ UNCHANGED <<parsed_startup_options_, i>>
          ELSE /\ i' = AfterPart("rc", i).i
               /\ pc' = AfterPart("rc", i).pc
               /\ UNCHANGED <<parsed_startup_options_, applied, exit_code,
                              die_msg>>
    /\ UNCHANGED <<input, scanVars, parseVars, startup_args_, outVars>>

CmdLoopCond ==
    args_ # <<>> /\ i < Len(args_) - 1 /\ IsArg(At(args_, i))

\* Command-line args, up to the first non-arg; all but the last one.
StartupCmdLoop ==
    /\ pc = "cmd_loop" /\ CmdLoopCond
    /\ Apply("cmd", At(args_, i), At(args_, i + 1), "")
    /\ UNCHANGED <<input, scanVars, parseVars, startup_args_, outVars>>

\* The last command-line arg, if it is one; startup_args_ = i - 1.
StartupCmdLast ==
    /\ pc = "cmd_loop" /\ ~CmdLoopCond
    /\ IF args_ # <<>> /\ i < Len(args_) /\ IsArg(At(args_, i))
       THEN LET r == ProcessArg(parsed_startup_options_, At(args_, i), "", "")
            IN /\ applied' = Append(applied,
                                    Call("cmd", i, At(args_, i), "", "", r))
               /\ IF r.ok
                  THEN /\ parsed_startup_options_' = r.opts
                       /\ startup_args_' = (i + 1) - 1
                       /\ i' = AfterPart("cmd", i + 1).i
                       /\ pc' = AfterPart("cmd", i + 1).pc
                       /\ UNCHANGED <<exit_code, die_msg>>
                  ELSE /\ die("BAD_ARGV",
                              [error |-> "Unknown Blaze startup option",
                               file |-> "", arg |-> At(args_, i)])
                       /\ UNCHANGED <<parsed_startup_options_, i, startup_args_>>
       ELSE /\ startup_args_' = i - 1
            /\ i' = AfterPart("cmd", i).i
            /\ pc' = AfterPart("cmd", i).pc
            /\ UNCHANGED <<parsed_startup_options_, applied, exit_code,
                           die_msg>>
    /\ UNCHANGED <<input, scanVars, parseVars, outVars>>

-----------------------------------------------------------------------------
(* OptionProcessor::AddRcfileArgsAndOptions and the command.               *)

\* An --rc_source for the files that gave an option only.
RcSourcesOfFilesWithOptions(files) ==
    LET withOptions ==
            SelectSeq([k \in 1..Len(files) |-> k],
                      LAMBDA k : \E c \in DOMAIN rcoptions_ :
                                    \E j \in 1..Len(rcoptions_[c]) :
                                       rcoptions_[c][j].rcfile_index = k - 1)
    IN [k \in 1..Len(withOptions) |->
           "--rc_source=" \o files[withOptions[k]].filename]

\* The options mapping .blazerc numbers to filenames.
RcSources(files) ==
    [k \in 1..Len(files) |-> "--rc_source=" \o files[k].filename]

DefaultOverride(keyword, rcoption) ==
    "--default_override=" \o ToString(rcoption.rcfile_index) \o ":"
        \o keyword \o "=" \o rcoption.option

\* The option defaults of one keyword, "startup" like any other.
GroupOverridesWithStartup(m, keyword) ==
    [k \in 1..Len(m[keyword]) |-> DefaultOverride(keyword, m[keyword][k])]

\* The option defaults of one keyword, none for "startup".
GroupOverrides(m, keyword) ==
    IF keyword = "startup" THEN <<>>
    ELSE [k \in 1..Len(m[keyword]) |-> DefaultOverride(keyword, m[keyword][k])]

\* The iteration over the map from its last key to its first.
RECURSIVE OptionDefaultsDescending(_, _)
OptionDefaultsDescending(m, r) ==
    IF r > Len(Keywords) THEN <<>>
    ELSE OptionDefaultsDescending(m, r + 1)
         \o (IF Keywords[r] \in DOMAIN m THEN GroupOverrides(m, Keywords[r])
             ELSE <<>>)

\* The iteration over the map, from its begin() to its end(): the keys in
\* ascending order, from the key of rank r on.
RECURSIVE OptionDefaults(_, _)
OptionDefaults(m, r) ==
    IF r > Len(Keywords) THEN <<>>
    ELSE (IF Keywords[r] \in DOMAIN m THEN GroupOverrides(m, Keywords[r])
          ELSE <<>>) \o OptionDefaults(m, r + 1)

\* --client_env, one for each entry of environ.
ClientEnv(env) ==
    [k \in 1..Len(env) |-> "--client_env=" \o env[k].name \o "=" \o env[k].value]

\* The client environment passed in batch mode too.
AddRcfileArgsAndOptionsEnvInBatch(batch, cwd) ==
    RcSources(blazercs_)
    \o OptionDefaults(rcoptions_, 1)
    \o <<"--isatty=" \o ToString(input.isatty),
         "--terminal_columns=" \o ToString(input.columns)>>
    \o (IF batch THEN <<"--ignore_client_env">> ELSE <<>>)
    \o ClientEnv(input.env)
    \o <<"--client_cwd=" \o cwd>>
    \o (IF getenv("EMACS") # NULL /\ getenv("EMACS") = "t"
        THEN <<"--emacs">> ELSE <<>>)

\* --client_cwd pushed before the terminal options.
AddRcfileArgsAndOptionsCwdFirst(batch, cwd) ==
    RcSources(blazercs_)
    \o OptionDefaults(rcoptions_, 1)
    \o <<"--client_cwd=" \o cwd>>
    \o <<"--isatty=" \o ToString(input.isatty),
         "--terminal_columns=" \o ToString(input.columns)>>
    \o (IF batch THEN <<"--ignore_client_env">> ELSE ClientEnv(input.env))
    \o (IF getenv("EMACS") # NULL /\ getenv("EMACS") = "t"
        THEN <<"--emacs">> ELSE <<>>)

AddRcfileArgsAndOptions(batch, cwd) ==
    RcSources(blazercs_)
    \o OptionDefaults(rcoptions_, 1)
    \o <<"--isatty=" \o ToString(input.isatty),
         "--terminal_columns=" \o ToString(input.columns)>>
    \o (IF batch THEN <<"--ignore_client_env">> ELSE ClientEnv(input.env))
    \o <<"--client_cwd=" \o cwd>>
    \o (IF getenv("EMACS") # NULL /\ getenv("EMACS") = "t"
        THEN <<"--emacs">> ELSE <<>>)

\* Determine command: none when the startup arguments end the command
\* line; else the command, the options above, and the arguments after it.
DetermineCommand ==
    /\ pc = "command"
    /\ IF startup_args_ + 1 >= Len(input.args)
       THEN /\ command_' = ""
            /\ UNCHANGED command_arguments_
       ELSE /\ command_' = At(input.args, startup_args_ + 1)
            /\ command_arguments_' =
                 command_arguments_
                 \o AddRcfileArgsAndOptions(parsed_startup_options_.batch, Cwd)
                 \o SubSeq(input.args, startup_args_ + 3, Len(input.args))
    /\ pc' = "done"
    /\ UNCHANGED <<input, scanVars, parseVars, startupVars, exit_code,
                   die_msg>>

-----------------------------------------------------------------------------
(* The checked invocations.                                                *)

DefaultEnv == <<[name |-> "HOME", value |-> HomeDir],
                [name |-> "TERM", value |-> "xterm"]>>

DefaultArgs == <<"blaze", "build", "//x">>

\* The user file of the workspace: an option of its own, and an import of
\* a file the depot file may import too.
BaseFs ==
    [p \in AllPaths |->
        IF p = WorkspaceRc THEN <<<<"build", "--u">>, <<"import", FileX>>>>
        ELSE <<>>]

Invocation(args, fs, readable, env) ==
    [args |-> args, fs |-> fs, readable |-> readable, env |-> env,
     isatty |-> 1, columns |-> 80]

\* Import graphs: the depot file and two more files, of MaxTotalLines
\* lines in all, each an import or an option line.
ImportLines ==
    {<<"import", FileX>>, <<"import", FileY>>, <<"import", DepotRc>>,
     <<"build", "--a">>, <<"test", "--t", "--v">>}

RECURSIVE FsWithLines(_)
FsWithLines(n) ==
    IF n = 0 THEN {BaseFs}
    ELSE LET prev == FsWithLines(n - 1)
         IN prev \cup {[f EXCEPT ![p] = Append(@, l)] :
                          f \in prev, p \in {DepotRc, FileX, FileY},
                          l \in ImportLines}

ImportInvocations ==
    {Invocation(DefaultArgs, fs, {DepotRc, WorkspaceRc, FileX, FileY},
                DefaultEnv) : fs \in FsWithLines(MaxTotalLines)}

\* Every shape of line, two of them in the depot file.
AllLines ==
    ImportLines \cup
    {<<>>, <<"import">>, <<"import", FileX, FileY>>, <<"import", FileMissing>>,
     <<"import", DepotRc, FileY>>,
     <<"common">>, <<"startup", "--batch">>, <<"startup", "--output_base", "/r">>,
     <<"build", "--b", "--c">>}

LineInvocations ==
    {Invocation(DefaultArgs,
                [BaseFs EXCEPT ![DepotRc] = <<l1, l2>>,
                               ![FileX] = <<<<"build", "--x">>,
                                            <<"startup", "--nobatch">>>>],
                {DepotRc, WorkspaceRc, FileX, FileY}, DefaultEnv) :
        l1 \in AllLines, l2 \in AllLines}

\* 'startup' words in the depot file and in the user file, under a few
\* command lines.
StartupWords ==
    {"--batch", "--nobatch", "--output_base", "/r", "--output_base=/p", "--help"}

StartupInvocations ==
    {Invocation(a,
                [BaseFs EXCEPT ![DepotRc] = <<<<"startup">> \o ws>>,
                               ![WorkspaceRc] = <<<<"startup">> \o us>>],
                {DepotRc, WorkspaceRc}, DefaultEnv) :
        ws \in SeqsUpTo(StartupWords, MaxStartupWords),
        us \in {<<>>, <<"--nobatch">>, <<"/u">>, <<"--output_base">>},
        a \in {<<"blaze", "build">>,
               <<"blaze", "--batch", "build", "--flag">>,
               <<"blaze", "--output_base", "/c", "--nobatch", "build">>}}

\* Command lines of up to MaxArgs tokens after the binary, and none at all.
Tokens ==
    {"--batch", "--nobatch", "--output_base", "--output_base=/p", "/c",
     "build", "--help", "--flag"}

ArgInvocations ==
    {Invocation(<<"blaze">> \o ts,
                [BaseFs EXCEPT ![DepotRc] = <<<<"startup", "--batch">>,
                                              <<"build", "--d">>>>],
                {DepotRc}, DefaultEnv) : ts \in SeqsUpTo(Tokens, MaxArgs)}
    \cup {Invocation(<<>>, BaseFs, {DepotRc}, DefaultEnv)}

\* The places of the files, the --blazerc and --nomaster_blazerc options
\* and HOME.
DiscoveryFs ==
    [p \in AllPaths |->
        CASE p = DepotRc -> <<<<"build", "--depot">>, <<"import", FileX>>>>
          [] p = DepotRcFallback -> <<<<"build", "--fallback">>>>
          [] p = WorkspaceRc -> <<<<"build", "--workspace">>>>
          [] p = HomeRc -> <<<<"build", "--home">>>>
          [] p = ExplicitRc -> <<<<"build", "--explicit">>>>
          [] p = FileX -> <<<<"build", "--x">>>>
          [] OTHER -> <<>>]

DiscoveryInvocations ==
    {Invocation(a, DiscoveryFs, r \cup {FileX}, e) :
        r \in SUBSET {DepotRc, DepotRcFallback, WorkspaceRc, HomeRc, ExplicitRc},
        a \in {<<"blaze", "build">>,
               <<"blaze", "--blazerc", ExplicitRc, "build">>,
               <<"blaze", "--blazerc=rel.rc", "build">>,
               <<"blaze", "--nomaster_blazerc", "build">>,
               <<"blaze", "build", "--nomaster_blazerc">>},
        e \in {DefaultEnv, <<[name |-> "TERM", value |-> "xterm"]>>}}

\* The environment and the terminal.
EnvInvocations ==
    {[Invocation(a, DiscoveryFs, {DepotRc, FileX}, e) EXCEPT !.isatty = t] :
        a \in {<<"blaze", "build", "//x", "-c">>,
               <<"blaze", "--batch", "build", "//x">>},
        e \in {<<>>, DefaultEnv,
               DefaultEnv \o <<[name |-> "EMACS", value |-> "t"]>>,
               <<[name |-> "EMACS", value |-> "no"]>>},
        t \in {0, 1}}

\* Nested imports with options before and after each import.
NestedFs ==
    [BaseFs EXCEPT
       ![DepotRc] = <<<<"build", "--d1">>, <<"import", FileX>>,
                      <<"build", "--d2">>, <<"startup", "--batch">>>>,
       ![FileX] = <<<<"build", "--x1">>, <<"import", FileY>>,
                    <<"build", "--x2">>, <<"startup", "--nobatch">>>>,
       ![FileY] = <<<<"build", "--y">>, <<"test", "--t">>>>]

NestedInvocations ==
    {Invocation(DefaultArgs, NestedFs, r, DefaultEnv) :
        r \in {{DepotRc, WorkspaceRc, FileX, FileY}, {DepotRc, FileX, FileY},
               {WorkspaceRc, FileX, FileY}}}

Invocations ==
    NestedInvocations \cup ImportInvocations \cup LineInvocations \cup StartupInvocations
    \cup ArgInvocations \cup DiscoveryInvocations \cup EnvInvocations

\* The state after construction: OptionProcessor::OptionProcessor().
Init ==
    /\ input \in Invocations
    /\ pc = "start"
    /\ initialized_ = FALSE
    /\ args_ = <<>>
    /\ blazerc = NULL
    /\ use_master_blazerc = TRUE
    /\ blazercs_ = <<>>
    /\ rcoptions_ = EmptyMap
    /\ frames = <<>>
    /\ import_stack = <<>>
    /\ parsed_startup_options_ = InitDefaults
    /\ i = 0
    /\ startup_args_ = 0
    /\ command_ = ""
    /\ command_arguments_ = <<>>
    /\ exit_code = ""
    /\ die_msg = [error |-> ""]
    /\ applied = <<>>
    /\ imports = <<>>

Next ==
    \/ PreScan
    \/ DepotBlazerc
    \/ ParseReadFile
    \/ ParseSkipLine
    \/ ParseImport
    \/ ParseOptionLine
    \/ ParseReturn
    \/ UserBlazerc
    \/ BeginStartup
    \/ StartupRcLoop
    \/ StartupRcLast
    \/ StartupCmdLoop
    \/ StartupCmdLast
    \/ DetermineCommand

Spec == Init /\ [][Next]_vars

-----------------------------------------------------------------------------
(* Properties.                                                             *)

NoRepeat(s) == \A a, b \in 1..Len(s) : a # b => s[a] # s[b]

\* File f has a well-formed import line naming g.
ImportsFile(f, g) ==
    \E k \in 1..Len(input.fs[f]) : input.fs[f][k] = <<"import", g>>

\* The top frame stands at a well-formed import of a file that is being
\* parsed further down the call chain.
AtCycleImport ==
    /\ frames # <<>> /\ Top.read /\ Top.line < Len(input.fs[Top.filename])
    /\ Len(Words) = 2 /\ Words[1] = "import"
    /\ Words[2] \in Range(import_stack)

\* The chain printed with the import loop: the call chain from the root
\* to the importing file, each file imported by the one before it, closed
\* by the import of a file of the chain.
LoopChainOk(loop) ==
    /\ Len(loop) = Len(frames)
    /\ \A k \in 1..Len(loop) : loop[k] = frames[k].filename
    /\ \A k \in 1..(Len(loop) - 1) : ImportsFile(loop[k], loop[k + 1])
    /\ \E k \in 1..Len(loop) :
          /\ loop[k] = Words[2]
          /\ ImportsFile(loop[Len(loop)], loop[k])

\* C1: an import of a file that is already being parsed (a file importing
\* itself, directly or through other files) is never followed: the very
\* step that reaches it dies with BAD_ARGV and the import-loop error, whose
\* chain is the import stack, i.e. every file from the root through the
\* whole cycle in the order the files were entered.  No file is ever on
\* the import stack twice, so the recursion is bounded.
C1_ImportCycleIsFatal ==
    /\ [][(Parsing /\ AtCycleImport) =>
            /\ pc' = "died"
            /\ exit_code' = "BAD_ARGV"
            /\ die_msg' = [error |-> "Import loop detected",
                           loop |-> import_stack]]_vars
    /\ [](NoRepeat(import_stack)
          /\ (die_msg.error = "Import loop detected" =>
                /\ pc = "died" /\ exit_code = "BAD_ARGV"
                /\ AtCycleImport
                /\ LoopChainOk(die_msg.loop)))

\* A cycle of two files below the root was reported.
C1_Witness ==
    /\ pc = "died" /\ die_msg.error = "Import loop detected"
    /\ Len(die_msg.loop) = 3
    /\ Words[2] = die_msg.loop[2]
    /\ die_msg.loop[2] # die_msg.loop[3]

\* The import graph of the files of the invocation.
IsImport(f, k) ==
    input.fs[f][k] # <<>> /\ input.fs[f][k][1] = "import"

ImportedBy(F) ==
    UNION {{input.fs[f][k][2] :
               k \in {j \in 1..Len(input.fs[f]) :
                         IsImport(f, j) /\ Len(input.fs[f][j]) = 2}} : f \in F}

RECURSIVE ReachIn(_)
ReachIn(F) ==
    LET G == F \cup (ImportedBy(F) \cap AllPaths)
    IN IF G = F THEN F ELSE ReachIn(G)

\* The files reached from f, f among them; and those reached by at least
\* one import.
Reaches(f) == ReachIn({f})
ReachesByImport(f) == ReachIn(ImportedBy({f}) \cap AllPaths)

Acyclic(root) == \A g \in Reaches(root) : g \notin ReachesByImport(g)

\* Readable files, whose import lines name one file each.
WellFormed(root) ==
    \A g \in Reaches(root) :
        /\ Readable(g)
        /\ ImportedBy({g}) \subseteq AllPaths
        /\ \A k \in 1..Len(input.fs[g]) :
              IsImport(g, k) => Len(input.fs[g][k]) = 2

\* The number of import paths from f to g (1 from a file to itself), in
\* an acyclic graph: the number of times a parse of f parses g.
RECURSIVE PathCount(_, _)
RECURSIVE PathCountFrom(_, _, _)
PathCount(f, g) == (IF f = g THEN 1 ELSE 0) + PathCountFrom(f, g, 1)
PathCountFrom(f, g, k) ==
    IF k > Len(input.fs[f]) THEN 0
    ELSE (IF IsImport(f, k) THEN PathCount(input.fs[f][k][2], g) ELSE 0)
         + PathCountFrom(f, g, k + 1)

\* The option words of the lines of f.
RECURSIVE OptionWords(_, _)
OptionWords(f, k) ==
    IF k > Len(input.fs[f]) THEN 0
    ELSE (IF input.fs[f][k] # <<>> /\ ~IsImport(f, k)
          THEN Len(input.fs[f][k]) - 1 ELSE 0)
         + OptionWords(f, k + 1)

\* The roots ParseOptions finds for the invocation.
DepotRoot ==
    IF ScanUseMaster(input.args) THEN FindDepotBlazerc(Workspace) ELSE ""
UserRoot == FindUserBlazerc(ScanBlazerc(input.args, 1), Workspace)
Roots == ({DepotRoot} \cup (IF UserRoot.die THEN {} ELSE {UserRoot.path})) \ {""}

AcyclicInput ==
    /\ ~UserRoot.die
    /\ \A r \in Roots : WellFormed(r) /\ Acyclic(r)

RECURSIVE SumOver(_, _, _)
SumOver(S, g, n) ==
    IF S = {} THEN n
    ELSE LET r == CHOOSE x \in S : TRUE
         IN SumOver(S \ {r}, g, n + PathCount(r, g))

TimesParsed(g) == SumOver(Roots, g, 0)

OptionsFrom(g) ==
    {<<kw, k>> \in (DOMAIN rcoptions_) \X (1..Collected(rcoptions_, 1)) :
        k <= Len(rcoptions_[kw]) /\ rcoptions_[kw][k].file = g}

\* The steps a parse of f takes in an acyclic graph, from line k on: one
\* for each line, and for an import line the whole parse of the imported
\* file as well; reading the file and returning are one step each.
RECURSIVE ParseSteps(_)
RECURSIVE LineSteps(_, _)
ParseSteps(f) == 2 + LineSteps(f, 1)
LineSteps(f, k) ==
    IF k > Len(input.fs[f]) THEN 0
    ELSE 1 + (IF IsImport(f, k) THEN ParseSteps(input.fs[f][k][2]) ELSE 0)
           + LineSteps(f, k + 1)

\* The steps left to the frames of the call stack: the top frame from its
\* line on, a caller from the line after its import.
RECURSIVE StepsLeft(_)
StepsLeft(k) ==
    IF k = 0 THEN 0
    ELSE StepsLeft(k - 1) + 1 +
         (IF k = Len(frames)
          THEN (IF frames[k].read THEN 0 ELSE 1)
               + LineSteps(frames[k].filename, frames[k].line + 1)
          ELSE LineSteps(frames[k].filename, frames[k].line + 2))

\* C2: the parse of an acyclic import graph of readable files with
\* well-formed import lines terminates: every step of it can be taken, none
\* dies (no import loop is reported, not for a file imported twice
\* either), and each brings the end one step nearer.  When the roots are
\* parsed every file has one RcFile, and one copy of each of its options,
\* for every import path that leads to it from a root.
C2_AcyclicParsedOncePerReference ==
    /\ [][Parsing /\ AcyclicInput =>
            /\ pc' # "died"
            /\ StepsLeft(Len(frames))' = StepsLeft(Len(frames)) - 1
            /\ StepsLeft(Len(frames))' >= 0]_vars
    /\ [](Parsing => ENABLED Next)
    /\ [](pc = "startup" /\ AcyclicInput =>
            \A g \in AllPaths :
               /\ Cardinality({k \in 1..Len(blazercs_) :
                                  blazercs_[k].filename = g}) = TimesParsed(g)
               /\ Cardinality(OptionsFrom(g))
                     = TimesParsed(g) * OptionWords(g, 1))

\* A diamond under the depot file: one file imported by the root itself and
\* by another file the root imports, parsed each time.
C2_Witness ==
    /\ pc = "startup" /\ AcyclicInput
    /\ \E a, b \in 1..Len(blazercs_) :
          /\ blazercs_[a].filename = blazercs_[b].filename
          /\ imports[a].parent = 0
          /\ imports[b].parent > 0
          /\ \E u \in 1..Len(blazercs_) :
                u > a /\ u > b /\ imports[u].parent = -1

\* C3: the index of every RcFile is its position in the file list, from 0
\* on.  A file gets the next index the moment it is discovered (a root) or
\* its import line is reached, before any of it is read, so an imported
\* file's index is larger than that of the file importing it and the
\* indices of the files being parsed grow from the root to the current
\* file.
C3_IndicesSequential ==
    /\ \A k \in 1..Len(blazercs_) : blazercs_[k].index = k - 1
    /\ Len(imports) = Len(blazercs_)
    /\ \A k \in 1..Len(blazercs_) :
          /\ imports[k].parent < blazercs_[k].index
          /\ imports[k].parent >= 0 =>
                \E l \in 1..Len(input.fs[At(blazercs_, imports[k].parent).filename]) :
                   /\ l = imports[k].line + 1
                   /\ input.fs[At(blazercs_, imports[k].parent).filename][l]
                        = <<"import", blazercs_[k].filename>>
    /\ \A j \in 1..Len(frames) :
          /\ frames[j].index < Len(blazercs_)
          /\ At(blazercs_, frames[j].index).filename = frames[j].filename
          /\ j > 1 => frames[j - 1].index < frames[j].index
    /\ (frames # <<>> /\ ~Top.read) => Top.index = Len(blazercs_) - 1

\* Two roots and a file imported by an imported file, all parsed.
C3_Witness ==
    /\ pc = "done"
    /\ \E a, b, c \in 1..Len(blazercs_) :
          /\ imports[a].parent = 0
          /\ imports[b].parent = a - 1
          /\ b < c /\ imports[c].parent = -1

\* The line of file anc (an index) whose import led to file d, through any
\* number of files; -1 when d was not reached from anc.
RECURSIVE ImportLineFrom(_, _)
ImportLineFrom(anc, d) ==
    IF d <= anc \/ At(imports, d).parent < 0 THEN -1
    ELSE IF At(imports, d).parent = anc THEN At(imports, d).line
    ELSE ImportLineFrom(anc, At(imports, d).parent)

\* Option a was met before option b by the parse: the earlier line or word
\* of one file; of two files, either the earlier one, unless the later one
\* was imported from it (directly or not) above a's line, or the later
\* one, when it was imported from b's file above b's line.
MetBefore(a, b) ==
    IF a.rcfile_index = b.rcfile_index
    THEN a.line < b.line \/ (a.line = b.line /\ a.word < b.word)
    ELSE IF a.rcfile_index < b.rcfile_index
    THEN LET l == ImportLineFrom(a.rcfile_index, b.rcfile_index)
         IN l = -1 \/ a.line < l
    ELSE LET l == ImportLineFrom(b.rcfile_index, a.rcfile_index)
         IN l # -1 /\ l < b.line

\* C4 as stated: every group is sorted by origin file index, then line,
\* then word, whatever the files import.
C4_GroupsSortedByFileIndex ==
    \A kw \in DOMAIN rcoptions_ :
       \A a, b \in 1..Len(rcoptions_[kw]) :
          a < b =>
             LET x == rcoptions_[kw][a]
                 y == rcoptions_[kw][b]
             IN \/ x.rcfile_index < y.rcfile_index
                \/ /\ x.rcfile_index = y.rcfile_index
                   /\ \/ x.line < y.line
                      \/ x.line = y.line /\ x.word < y.word

\* C4, amended: every group is in the order in which the depth-first parse
\* met its entries.  The entries of one file are in line order, then word
\* order, and the entries of different files in the order of their origin
\* indices, except that the entries of an imported file (and of the files
\* it imports) come before the entries of the lines that follow the import
\* line in the importing file.
C4_GroupsInParseOrder ==
    \A kw \in DOMAIN rcoptions_ :
       \A a, b \in 1..Len(rcoptions_[kw]) :
          a < b => MetBefore(rcoptions_[kw][a], rcoptions_[kw][b])

\* A group holds an option of an imported file, and after it an option of
\* the importing file and the second word of a line.
C4_Witness ==
    /\ pc = "done"
    /\ \E kw \in DOMAIN rcoptions_ :
          \E a, b, c \in 1..Len(rcoptions_[kw]) :
             /\ a < b /\ b < c
             /\ rcoptions_[kw][a].rcfile_index > rcoptions_[kw][b].rcfile_index
             /\ rcoptions_[kw][c].word = 2

\* The calls of ProcessArg made for the rcfiles, and for the command line.
RcCalls == {k \in 1..Len(applied) : applied[k].from = "rc"}
CmdCalls == {k \in 1..Len(applied) : applied[k].from = "cmd"}

\* ParseStartupOptions has returned.
StartupDone == pc \in {"command", "done"}

\* The option an arg sets, and the value a call gives it.
SetsBatch(arg) == arg \in {"--batch", "--nobatch"}
SetsOutputBase(arg) == arg \in {"--output_base", "--output_base=/p"}
OutputBaseOf(call) ==
    IF call.arg = "--output_base" THEN call.next_arg ELSE "/p"

Last(S) == CHOOSE k \in S : \A j \in S : j <= k

\* C5: every call of ProcessArg for an rcfile 'startup' entry comes before
\* every call for a command-line token, the former with the name of the
\* entry's file and the latter with the empty file name; so when
\* ParseStartupOptions has returned, an option that the command line sets
\* has the value of the last command-line token setting it and the command
\* line as its recorded source, whatever the rcfiles said.
C5_CommandLineOverridesRcfiles ==
    /\ \A a \in CmdCalls : \A b \in RcCalls : b < a
    /\ \A a \in CmdCalls :
          applied[a].rcfile = "" /\ applied[a].arg = At(input.args, applied[a].pos)
    /\ \A b \in RcCalls :
          /\ applied[b].rcfile # ""
          /\ applied[b].arg = At(rcoptions_["startup"], applied[b].pos).option
    /\ StartupDone =>
          LET batchCalls == {k \in CmdCalls : SetsBatch(applied[k].arg)}
              baseCalls == {k \in CmdCalls : SetsOutputBase(applied[k].arg)}
          IN /\ batchCalls # {} =>
                   /\ parsed_startup_options_.batch
                        = (applied[Last(batchCalls)].arg = "--batch")
                   /\ parsed_startup_options_.option_sources["batch"] = ""
             /\ baseCalls # {} =>
                   /\ parsed_startup_options_.output_base
                        = OutputBaseOf(applied[Last(baseCalls)])
                   /\ parsed_startup_options_.option_sources["output_base"] = ""

\* Both an rcfile and the command line set batch and output_base, to
\* different values.
C5_Witness ==
    /\ pc = "done"
    /\ \E b \in RcCalls : applied[b].arg = "--batch"
    /\ \E b \in RcCalls : applied[b].arg = "--output_base=/p"
    /\ \E a \in CmdCalls : applied[a].arg = "--nobatch"
    /\ \E a \in CmdCalls : applied[a].arg = "--output_base"
    /\ parsed_startup_options_.batch = FALSE
    /\ parsed_startup_options_.output_base = "/c"

\* The calls for the entries of v (the 'startup' group, or args_), the
\* first of them at position first: each call is for the entry after the
\* one before it, or after that one's value; the entry is passed as
\* the option and its successor, if any, as the value.
CallsInOrder(calls, first) ==
    \A k \in calls :
       /\ applied[k].ok \/ k = Len(applied)
       /\ IF k - 1 \in calls
          THEN applied[k].pos = applied[k - 1].pos
                                 + (IF applied[k - 1].consumed THEN 2 ELSE 1)
          ELSE applied[k].pos = first /\ \A j \in calls : j >= k

\* C6: the rcfile 'startup' entries are passed to ProcessArg in the order
\* of the group (the order in which they were collected), each with the
\* name of its file, and the command-line tokens after them; no entry and
\* no token is passed as the option twice, and one that the call before it
\* consumed as its value is not passed as an option at all.  When the
\* rcfile part is over every entry has been passed or consumed, but for a
\* last entry that is no arg.
C6_StartupEntriesAppliedOnceInOrder ==
    /\ \A a \in CmdCalls : \A b \in RcCalls : b < a
    /\ CallsInOrder(RcCalls, 0)
    /\ CallsInOrder(CmdCalls, 1)
    /\ \A b \in RcCalls :
          LET group == rcoptions_["startup"]
              e == At(group, applied[b].pos)
          IN /\ applied[b].arg = e.option
             /\ applied[b].rcfile = At(blazercs_, e.rcfile_index).filename
             /\ applied[b].next_arg =
                   (IF applied[b].pos + 1 < Len(group)
                    THEN At(group, applied[b].pos + 1).option ELSE "")
    /\ \A a \in CmdCalls :
          /\ applied[a].arg = At(input.args, applied[a].pos)
          /\ applied[a].next_arg =
                (IF applied[a].pos + 1 < Len(input.args)
                 THEN At(input.args, applied[a].pos + 1) ELSE "")
    /\ (pc \in {"cmd_loop", "command", "done"} /\ "startup" \in DOMAIN rcoptions_) =>
          LET group == rcoptions_["startup"]
              end == IF RcCalls = {} THEN 0
                     ELSE applied[Last(RcCalls)].pos
                          + (IF applied[Last(RcCalls)].consumed THEN 2 ELSE 1)
          IN \/ end = Len(group)
             \/ end = Len(group) - 1 /\ ~IsArg(At(group, end).option)

\* Entries A, B of the depot file and C of the user file were applied, in
\* this order, and then a command-line option with its value.
C6_Witness ==
    /\ pc = "done"
    /\ Len(applied) >= 4
    /\ applied[1].from = "rc" /\ applied[1].pos = 0 /\ applied[1].rcfile = DepotRc
    /\ applied[2].from = "rc" /\ applied[2].pos = 1 /\ applied[2].rcfile = DepotRc
    /\ applied[3].from = "rc" /\ applied[3].pos = 2 /\ applied[3].rcfile = WorkspaceRc
    /\ applied[4].from = "cmd" /\ applied[4].consumed

HelpAliases == {"--help", "-help", "-h"}

\* A token has the shape of a flag: a dash first, and no help alias.
FlagShaped(token) == token \in StartsWithDash \ HelpAliases

\* The position (from 0) of the command on the command line: after the
\* tokens passed to ProcessArg and the values it consumed.
Boundary ==
    IF CmdCalls = {} THEN 1
    ELSE applied[Last(CmdCalls)].pos
         + (IF applied[Last(CmdCalls)].consumed THEN 2 ELSE 1)

\* C7: the tokens from position 1 on are passed to ProcessArg as long as
\* they start with a dash and are no help alias, a token consumed as a
\* value being skipped; the first token after them is the command, and the
\* tokens after it are the last of the command arguments, as they were on
\* the command line.  With no token left the command is empty and nothing
\* has died.
C7_CommandAfterStartupTokens ==
    /\ CallsInOrder(CmdCalls, 1)
    /\ \A a \in CmdCalls :
          /\ applied[a].pos < Len(input.args)
          /\ applied[a].arg = At(input.args, applied[a].pos)
          /\ FlagShaped(applied[a].arg)
    /\ pc = "done" =>
          /\ startup_args_ + 1 = Boundary
          /\ IF Boundary < Len(input.args)
             THEN LET after == Len(input.args) - (Boundary + 1)
                      n == Len(command_arguments_)
                  IN /\ command_ = At(input.args, Boundary)
                     /\ ~FlagShaped(command_)
                     /\ n >= after
                     /\ SubSeq(command_arguments_, n - after + 1, n)
                          = SubSeq(input.args, Boundary + 2, Len(input.args))
                     /\ exit_code = ""
             ELSE /\ command_ = ""
                  /\ command_arguments_ = <<>>
                  /\ exit_code = ""

\* The command after a nullary option, with one argument after it.
C7_Witness ==
    /\ pc = "done"
    /\ input.args = <<"blaze", "--batch", "build", "--flag">>
    /\ command_ = "build"
    /\ command_arguments_[Len(command_arguments_)] = "--flag"
    /\ startup_args_ = 1

\* A help alias is the command.
C7_WitnessHelp ==
    /\ pc = "done"
    /\ input.args = <<"blaze", "--help">>
    /\ command_ = "--help"

\* AddRcfileArgsAndOptions has been called.
Emitted == pc = "done" /\ command_ # ""

IsRcSource(s) ==
    \E p \in AllPaths \cup {MakeAbsolute("rel.rc")} : s = "--rc_source=" \o p

\* The files that gave no option.
FilesWithoutOptions ==
    {k \in 1..Len(blazercs_) :
        \A c \in DOMAIN rcoptions_ : \A j \in 1..Len(rcoptions_[c]) :
           rcoptions_[c][j].rcfile_index # k - 1}

\* C8: the command arguments begin with the --rc_source entries, the k-th
\* of them naming the file of index k - 1, for every file of the list, with
\* options or without, a root or an imported file; no other command
\* argument written by AddRcfileArgsAndOptions is an --rc_source.
C8_OneRcSourcePerFile ==
    Emitted =>
       LET written == Len(command_arguments_)
                      - (Len(input.args) - (startup_args_ + 2))
       IN /\ written >= Len(blazercs_)
          /\ \A k \in 1..Len(blazercs_) :
                command_arguments_[k] = "--rc_source=" \o blazercs_[k].filename
          /\ \A k \in (Len(blazercs_) + 1)..written :
                ~IsRcSource(command_arguments_[k])

\* Three files, one of them imported and one without an option.
C8_Witness ==
    /\ Emitted
    /\ Len(blazercs_) >= 3
    /\ FilesWithoutOptions # {}
    /\ 1..Len(blazercs_) \ FilesWithoutOptions # {}
    /\ \E k \in 1..Len(imports) : imports[k].parent >= 0

\* The place of --isatty among the command arguments.
IsattyAt ==
    CHOOSE k \in 1..Len(command_arguments_) :
       /\ command_arguments_[k] \in {"--isatty=0", "--isatty=1"}
       /\ \A j \in 1..(k - 1) :
             command_arguments_[j] \notin {"--isatty=0", "--isatty=1"}

\* The command arguments between the --rc_source entries and --isatty.
Overrides == SubSeq(command_arguments_, Len(blazercs_) + 1, IsattyAt - 1)

\* The collected entries, each <<keyword, place in the group>>.
Entries ==
    UNION {{<<c, j>> : j \in 1..Len(rcoptions_[c])} : c \in DOMAIN rcoptions_}
NonStartup == {e \in Entries : e[1] # "startup"}
Entry(e) == rcoptions_[e[1]][e[2]]

\* The text of the --default_override for an entry.
OverrideText(e) ==
    "--default_override=" \o ToString(Entry(e).rcfile_index) \o ":" \o e[1]
        \o "=" \o Entry(e).option

Occurrences(seq, x) == Cardinality({k \in 1..Len(seq) : seq[k] = x})

\* C9: between the --rc_source entries and --isatty the command arguments
\* are the --default_override entries: for each collected entry whose
\* keyword is not 'startup' one, with the entry's file index, keyword and
\* text (equal texts as often as there are such entries), and nothing
\* else; none of the command arguments is the override of a 'startup'
\* entry.
C9_OneOverridePerNonStartupEntry ==
    Emitted =>
       /\ Len(Overrides) = Cardinality(NonStartup)
       /\ \A e \in NonStartup :
             Occurrences(Overrides, OverrideText(e))
               = Cardinality({d \in NonStartup : OverrideText(d) = OverrideText(e)})
       /\ \A k \in 1..Len(Overrides) :
             \E e \in NonStartup : Overrides[k] = OverrideText(e)
       /\ \A e \in Entries \ NonStartup :
             OverrideText(e) \notin Range(command_arguments_)

\* 'startup' entries and entries of two other keywords from two files, two
\* of them of the same text.
C9_Witness ==
    /\ Emitted
    /\ Entries \ NonStartup # {}
    /\ \E d, e \in NonStartup : d[1] # e[1]
    /\ \E d, e \in NonStartup :
          d # e /\ OverrideText(d) = OverrideText(e)
    /\ \E d, e \in NonStartup : Entry(d).rcfile_index # Entry(e).rcfile_index

\* The place of an entry's --default_override among the overrides, when
\* there is one for each entry: the entries of equal text in the order of
\* their collection.
PlaceOf(e) ==
    CHOOSE k \in 1..Len(Overrides) :
       /\ Overrides[k] = OverrideText(e)
       /\ Cardinality({j \in 1..k : Overrides[j] = OverrideText(e)})
            = Cardinality({d \in NonStartup :
                              /\ OverrideText(d) = OverrideText(e)
                              /\ Entry(d).seq <= Entry(e).seq})

\* C10, as stated: of two entries whose keyword is not 'startup', the one
\* collected earlier has its --default_override earlier.
C10_OverridesInCollectionOrder ==
    Emitted =>
       \A d, e \in NonStartup :
          Entry(d).seq < Entry(e).seq => PlaceOf(d) < PlaceOf(e)

\* C10, amended: the --default_override entries come keyword by keyword,
\* the keywords in ascending order, and those of one keyword in the order
\* of collection.
C10_OverridesByKeywordThenCollectionOrder ==
    Emitted =>
       \A d, e \in NonStartup :
          (\/ KeyRank(d[1]) < KeyRank(e[1])
           \/ d[1] = e[1] /\ Entry(d).seq < Entry(e).seq)
          => PlaceOf(d) < PlaceOf(e)

\* A 'test' entry collected before a 'build' entry, and two entries of
\* one keyword.
C10_Witness ==
    /\ Emitted
    /\ \E d, e \in NonStartup :
          /\ d[1] = "test" /\ e[1] = "build"
          /\ Entry(d).seq < Entry(e).seq
          /\ PlaceOf(e) < PlaceOf(d)
    /\ \E d, e \in NonStartup : d[1] = e[1] /\ d[2] < e[2]

\* The arguments after the command on the command line.
Trailing == SubSeq(input.args, Boundary + 2, Len(input.args))

\* The command arguments written by AddRcfileArgsAndOptions: all but the
\* arguments copied from the command line after it.
Written ==
    SubSeq(command_arguments_, 1, Len(command_arguments_) - Len(Trailing))

\* The --client_env entries of the checked environments.
IsClientEnv(s) ==
    \E n \in {"HOME", "TERM", "EMACS"} : \E v \in {HomeDir, "xterm", "t", "no"} :
       s = "--client_env=" \o n \o "=" \o v

CountOf(seq, P(_)) == Cardinality({k \in 1..Len(seq) : P(seq[k])})

IsIgnoreClientEnv(s) == s = "--ignore_client_env"

\* C11: of the command arguments written by AddRcfileArgsAndOptions, with
\* batch false as many are --client_env entries as the environment has
\* variables, each variable's own NAME=value, and none is
\* --ignore_client_env; with batch true exactly one is --ignore_client_env
\* and none is a --client_env entry.
C11_ClientEnvOrIgnoreByBatch ==
    Emitted =>
       IF parsed_startup_options_.batch
       THEN /\ CountOf(Written, IsIgnoreClientEnv) = 1
            /\ CountOf(Written, IsClientEnv) = 0
       ELSE /\ CountOf(Written, IsIgnoreClientEnv) = 0
            /\ CountOf(Written, IsClientEnv) = Len(input.env)
            /\ \A k \in 1..Len(input.env) :
                  \E j \in 1..Len(Written) :
                     Written[j] = "--client_env=" \o input.env[k].name \o "="
                                     \o input.env[k].value

\* Batch mode with variables in the environment.
C11_Witness ==
    /\ Emitted
    /\ parsed_startup_options_.batch
    /\ Len(input.env) >= 2
    /\ "--ignore_client_env" \in Range(command_arguments_)

\* Server mode with three variables passed.
C11_WitnessServer ==
    /\ Emitted
    /\ ~parsed_startup_options_.batch
    /\ Len(input.env) = 3
    /\ CountOf(command_arguments_, IsClientEnv) = 3

\* The place of a command argument in the order of AddRcfileArgsAndOptions
\* (0: none of its arguments).
Rank(s) ==
    CASE IsRcSource(s) -> 1
      [] \E e \in NonStartup : s = OverrideText(e) -> 2
      [] s \in {"--isatty=0", "--isatty=1"} -> 3
      [] s = "--terminal_columns=" \o ToString(input.columns) -> 4
      [] IsClientEnv(s) \/ IsIgnoreClientEnv(s) -> 5
      [] s = "--client_cwd=" \o Cwd -> 6
      [] s = "--emacs" -> 7
      [] OTHER -> 0

\* The first p command arguments are those of AddRcfileArgsAndOptions, in
\* its order: the --rc_source entries, the --default_override entries,
\* --isatty, --terminal_columns, --ignore_client_env or the --client_env
\* entries, --client_cwd, and --emacs exactly when EMACS is "t".
OptionsInOrder(p) ==
    /\ p >= 0 /\ p <= Len(command_arguments_)
    /\ \A k \in 1..p : Rank(command_arguments_[k]) # 0
    /\ \A j, k \in 1..p :
          j < k => Rank(command_arguments_[j]) <= Rank(command_arguments_[k])
    /\ \A r \in {3, 4, 6} :
          Cardinality({k \in 1..p : Rank(command_arguments_[k]) = r}) = 1
    /\ Cardinality({k \in 1..p : Rank(command_arguments_[k]) = 1})
         = Len(blazercs_)
    /\ Cardinality({k \in 1..p : Rank(command_arguments_[k]) = 2})
         = Cardinality(NonStartup)
    /\ Cardinality({k \in 1..p : Rank(command_arguments_[k]) = 7})
         = (IF \E k \in 1..Len(input.env) :
                  /\ input.env[k] = [name |-> "EMACS", value |-> "t"]
                  /\ \A j \in 1..(k - 1) : input.env[j].name # "EMACS"
            THEN 1 ELSE 0)

\* C12, as stated: the command arguments are the options in their order,
\* then the command, then the arguments after the command.
C12_OptionsThenCommandThenArguments ==
    Emitted =>
       LET p == Len(command_arguments_) - Len(Trailing) - 1
       IN /\ OptionsInOrder(p)
          /\ SubSeq(command_arguments_, p + 1, Len(command_arguments_))
               = <<command_>> \o Trailing

\* C12, amended: the command arguments are the options in their order and
\* right after them the arguments after the command; the command is not
\* among the command arguments, it is kept apart in command_.
C12_OptionsThenArguments ==
    Emitted =>
       LET p == Len(command_arguments_) - Len(Trailing)
       IN /\ OptionsInOrder(p)
          /\ SubSeq(command_arguments_, p + 1, Len(command_arguments_))
               = Trailing
          /\ command_ = At(input.args, Boundary)

\* Every kind of option is there, --emacs too, and an argument after the
\* command.
C12_Witness ==
    /\ Emitted
    /\ Trailing # <<>>
    /\ \A r \in 1..7 :
          \E k \in 1..Len(Written) : Rank(Written[k]) = r
    /\ command_ \notin Range(command_arguments_)

\* HOME is set, and the file .blazerc of that directory is readable.
HomeFileReadable ==
    \E k \in 1..Len(input.env) :
       /\ input.env[k].name = "HOME"
       /\ \A j \in 1..(k - 1) : input.env[j].name # "HOME"
       /\ (input.env[k].value \o "/.blazerc") \in input.readable

\* The user file by the precedence of the three places; "" for none and
\* "die" for an unreadable file named on the command line.
UserFileByPrecedence ==
    IF blazerc # NULL
    THEN (IF MakeAbsolute(blazerc) \in input.readable
          THEN MakeAbsolute(blazerc) ELSE "die")
    ELSE IF "/ws/.blazerc" \in input.readable THEN "/ws/.blazerc"
    ELSE IF HomeFileReadable THEN "/home/u/.blazerc"
    ELSE ""

\* The root files registered so far.
RootFiles == {k \in 1..Len(blazercs_) : imports[k].parent = -1}

\* C13: the step that looks for the user file registers at most one file
\* as a root: the file named by --blazerc if there is one, dying with
\* BAD_ARGV and registering nothing when that file is unreadable, whatever
\* else is readable; else the workspace's .blazerc if readable; else
\* $HOME/.blazerc if HOME is set and the file readable; else no file.
C13_UserFileByStrictPrecedence ==
    [][pc = "user" =>
          LET f == UserFileByPrecedence
          IN IF f = "die"
             THEN /\ pc' = "died" /\ exit_code' = "BAD_ARGV"
                  /\ blazercs_' = blazercs_
             ELSE IF f = ""
             THEN /\ pc' = "startup" /\ blazercs_' = blazercs_
                  /\ exit_code' = ""
             ELSE /\ pc' = "parse_user" /\ exit_code' = ""
                  /\ blazercs_' = Append(blazercs_, RcFile(f, Len(blazercs_)))
                  /\ Cardinality(RootFiles') = Cardinality(RootFiles) + 1]_vars

\* The file named on the command line is the user file although the
\* workspace's and the home directory's .blazerc are readable.
C13_Witness ==
    /\ pc = "parse_user" /\ Len(frames) = 1 /\ ~Top.read
    /\ Top.filename = ExplicitRc
    /\ {WorkspaceRc, HomeRc} \subseteq input.readable

\* An unreadable file named on the command line is fatal although the
\* workspace's .blazerc is readable.
C13_WitnessUnreadable ==
    /\ pc = "died" /\ exit_code = "BAD_ARGV"
    /\ blazerc # NULL /\ MakeAbsolute(blazerc) \notin input.readable
    /\ WorkspaceRc \in input.readable
    /\ applied = <<>>

\* The home directory's .blazerc is the user file.
C13_WitnessHome ==
    /\ pc = "parse_user" /\ Len(frames) = 1 /\ Top.filename = HomeRc

\* The readable shared file: the one under tools, or else the one under
\* READONLY; "" when neither is readable.
SharedFile ==
    IF "/ws/tools/blaze.blazerc" \in input.readable
    THEN "/ws/tools/blaze.blazerc"
    ELSE IF "/ws/../READONLY/google3/tools/blaze.blazerc" \in input.readable
    THEN "/ws/../READONLY/google3/tools/blaze.blazerc"
    ELSE ""

\* A token of the command line, at any place after the binary, is
\* --nomaster_blazerc.
NoMasterToken ==
    \E k \in 2..Len(input.args) : input.args[k] = "--nomaster_blazerc"

SharedFileWanted == SharedFile # "" /\ ~NoMasterToken

\* The file of index k - 1 has been parsed to its end: each word of its
\* option lines is an entry and each of its imports has added a file.
FileDone(k) ==
    LET lines == input.fs[blazercs_[k].filename]
    IN \A l \in 1..Len(lines) :
          IF lines[l] # <<>> /\ lines[l][1] = "import"
          THEN \E j \in 1..Len(blazercs_) :
                  /\ imports[j] = [parent |-> k - 1, line |-> l - 1]
                  /\ blazercs_[j].filename = lines[l][2]
          ELSE \A w \in 1..(Len(lines[l]) - 1) :
                  \E e \in Entries :
                     /\ e[1] = lines[l][1]
                     /\ Entry(e).rcfile_index = k - 1
                     /\ Entry(e).line = l - 1 /\ Entry(e).word = w
                     /\ Entry(e).option = lines[l][w + 1]

\* C14: the shared file becomes a root exactly when one of its two places
\* is readable and no token of the command line after the binary is
\* --nomaster_blazerc.  It is then the file of index 0, and when the user
\* file becomes a root the shared file and the files it imports have been
\* parsed to their ends: their indices are below the user file's and their
\* entries were collected before every entry of the user file and of the
\* files that one imports.
C14_SharedFileResolvedFirst ==
    pc \notin {"start", "depot"} =>
       IF SharedFileWanted
       THEN /\ Len(blazercs_) >= 1
            /\ blazercs_[1] = RcFile(SharedFile, 0)
            /\ 1 \in RootFiles
            /\ Cardinality(RootFiles) <= 2
            /\ pc = "parse_depot" => RootFiles = {1}
            /\ pc \in {"user", "parse_user", "startup", "rc_loop", "cmd_loop",
                       "command", "done"} \/ Cardinality(RootFiles) = 2
                  => LET u == IF RootFiles = {1} THEN Len(blazercs_) + 1
                              ELSE CHOOSE k \in RootFiles : k # 1
                     IN /\ \A k \in 1..(u - 1) : FileDone(k)
                        /\ \A k \in 2..(u - 1) :
                              imports[k].parent \in 0..(u - 2)
                        /\ \A k \in (u + 1)..Len(blazercs_) :
                              imports[k].parent >= u - 1
                        /\ \A d, e \in Entries :
                              (Entry(d).rcfile_index < u - 1
                               /\ Entry(e).rcfile_index >= u - 1)
                              => /\ Entry(d).seq < Entry(e).seq
                                 /\ d[1] = e[1] => d[2] < e[2]
       ELSE /\ pc # "parse_depot"
            /\ RootFiles \subseteq {1}
            /\ pc = "user" => blazercs_ = <<>> /\ rcoptions_ = EmptyMap
            /\ blazercs_ # <<>> => blazercs_[1].filename = UserFileByPrecedence

\* The shared file with an import and the user file with an import, both
\* with options of one keyword.
C14_Witness ==
    /\ pc = "done"
    /\ SharedFileWanted
    /\ Cardinality(RootFiles) = 2
    /\ \E u \in RootFiles : u >= 3 /\ u < Len(blazercs_)
    /\ \E d, e \in Entries :
          /\ d[1] = e[1]
          /\ blazercs_[Entry(d).rcfile_index + 1].filename = FileX
          /\ Entry(d).rcfile_index = 1
          /\ Entry(e).file = WorkspaceRc

\* --nomaster_blazerc after the command: the readable shared file is left
\* out.
C14_WitnessNoMaster ==
    /\ pc = "done"
    /\ SharedFile # ""
    /\ input.args = <<"blaze", "build", "--nomaster_blazerc">>
    /\ Len(blazercs_) = 1

\* The line the top frame is at is an import with no path or with more
\* words than the path.
AtMalformedImport ==
    /\ AtLine /\ Words # <<>> /\ Words[1] = "import"
    /\ Len(Words) # 2

InvalidImport == "Invalid import declaration in .blazerc file"

\* C15: at an import line of one word or of more than two, Parse dies with
\* BAD_ARGV for an invalid import declaration, also when the word after
\* 'import' names a file on the import stack; no file is registered, the
\* import stack and the options stay as they are, and no file ever has
\* such a line as the import that added it.
C15_MalformedImportIsFatal ==
    /\ [][AtMalformedImport =>
            /\ pc' = "died"
            /\ exit_code' = "BAD_ARGV"
            /\ die_msg'.error = InvalidImport
            /\ die_msg'.file = Top.filename
            /\ UNCHANGED <<blazercs_, import_stack, rcoptions_, frames>>]_vars
    /\ [](\A j \in 1..Len(blazercs_) :
             imports[j].parent >= 0 =>
                LET from == blazercs_[imports[j].parent + 1].filename
                    words == input.fs[from][imports[j].line + 1]
                IN words = <<"import", blazercs_[j].filename>>)
    /\ [](pc = "died" /\ die_msg.error = InvalidImport =>
             /\ frames # <<>> /\ Words # <<>>
             /\ Words[1] = "import" /\ Len(Words) # 2)

\* Dead at an import of three words, the first of them a file on the
\* import stack.
C15_Witness ==
    /\ pc = "died" /\ exit_code = "BAD_ARGV"
    /\ die_msg.error = InvalidImport
    /\ Len(Words) = 3 /\ Words[2] \in Range(import_stack)

\* Dead at an import without a path.
C15_WitnessNoPath ==
    /\ pc = "died" /\ exit_code = "BAD_ARGV"
    /\ die_msg.error = InvalidImport
    /\ Words = <<"import">>

\* The file of index k - 1 is the file added by import j, or a file of
\* the imports below it.
RECURSIVE InSubtree(_, _)
InSubtree(k, j) ==
    IF k = j THEN TRUE
    ELSE IF k < j \/ imports[k].parent < 0 THEN FALSE
    ELSE InSubtree(imports[k].parent + 1, j)

\* C16: for every import that added a file, in each keyword group the
\* entries of the importing file from lines before the import line are
\* before the entries of the imported file and of the files imported
\* below it, and these are before the entries of the importing file from
\* lines after the import line.
C16_ImportedEntriesAtImportLine ==
    \A j \in 1..Len(blazercs_) :
       imports[j].parent >= 0 =>
          \A d, e \in Entries :
             (/\ d[1] = e[1]
              /\ Entry(d).rcfile_index = imports[j].parent
              /\ InSubtree(Entry(e).rcfile_index + 1, j))
             => /\ Entry(d).line < imports[j].line => d[2] < e[2]
                /\ Entry(d).line > imports[j].line => e[2] < d[2]

\* An import with entries of one keyword before it, after it, from the
\* imported file and from a file that one imports.
C16_Witness ==
    /\ pc = "done"
    /\ \E j \in 1..Len(blazercs_) :
          /\ imports[j].parent >= 0
          /\ \E b, a, x, y \in Entries :
                /\ b[1] = a[1] /\ a[1] = x[1] /\ x[1] = y[1]
                /\ Entry(b).rcfile_index = imports[j].parent
                /\ Entry(a).rcfile_index = imports[j].parent
                /\ Entry(b).line < imports[j].line
                /\ Entry(a).line > imports[j].line
                /\ Entry(x).rcfile_index = j - 1
                /\ Entry(y).rcfile_index > j - 1
                /\ InSubtree(Entry(y).rcfile_index + 1, j)
                /\ b[2] < x[2] /\ x[2] < y[2] /\ y[2] < a[2]

\* C17: in the rcfile part of ParseStartupOptions, an entry that is not
\* the last one and was not consumed is passed to ProcessArg with the
\* entry after it, whatever its shape; the last entry, if not consumed, is
\* passed with an empty value when it starts with a dash and is no help
\* alias, and otherwise it is not passed, nothing dies, and the command
\* line is next.
C17_LastStartupEntryOnlyIfFlagShaped ==
    [][pc = "rc_loop" =>
          LET group == rcoptions_["startup"]
              n == Len(group)
          IN /\ i >= 0 /\ i <= n
             /\ i < n - 1 =>
                   /\ Len(applied') = Len(applied) + 1
                   /\ applied'[Len(applied')].from = "rc"
                   /\ applied'[Len(applied')].pos = i
                   /\ applied'[Len(applied')].arg = At(group, i).option
                   /\ applied'[Len(applied')].next_arg = At(group, i + 1).option
             /\ (i = n - 1 /\ FlagShaped(At(group, i).option)) =>
                   /\ Len(applied') = Len(applied) + 1
                   /\ applied'[Len(applied')].from = "rc"
                   /\ applied'[Len(applied')].pos = i
                   /\ applied'[Len(applied')].arg = At(group, i).option
                   /\ applied'[Len(applied')].next_arg = ""
             /\ (i = n \/ (i = n - 1 /\ ~FlagShaped(At(group, i).option))) =>
                   /\ applied' = applied
                   /\ parsed_startup_options_' = parsed_startup_options_
                   /\ pc' = "cmd_loop" /\ exit_code' = ""]_vars

\* The last entry is no option and was not consumed by the entry before
\* it: it was not passed, and the command line was processed.
C17_Witness ==
    /\ pc = "done"
    /\ "startup" \in DOMAIN rcoptions_
    /\ LET group == rcoptions_["startup"]
           n == Len(group)
       IN /\ n >= 2
          /\ group[n].option \in {"/r", "/u"}
          /\ \E b \in RcCalls : applied[b].pos = n - 2 /\ ~applied[b].consumed
          /\ \A b \in RcCalls : applied[b].pos # n - 1

\* An entry that is no option and not the last one was passed.
C17_WitnessNotLast ==
    /\ "startup" \in DOMAIN rcoptions_
    /\ \E b \in RcCalls :
          /\ applied[b].arg = "/r"
          /\ applied[b].pos < Len(rcoptions_["startup"]) - 1

\* A file that was registered has a line of this keyword alone.
KeywordAlone(c) ==
    \E k \in 1..Len(blazercs_) :
       \E l \in 1..Len(input.fs[blazercs_[k].filename]) :
          input.fs[blazercs_[k].filename][l] = <<c>>

\* C18: every group of the option map has at least one entry, and each
\* entry is a word after the keyword of a line of its file, so a keyword
\* without words makes no group.  In the rcfile loop of
\* ParseStartupOptions the 'startup' group therefore has n >= 1 entries,
\* size() - 1 is n - 1, and the entries read, i and i + 1 in the loop and
\* i after it, are entries of the group.
C18_GroupsNeverEmpty ==
    /\ \A c \in DOMAIN rcoptions_ : Len(rcoptions_[c]) >= 1
    /\ \A e \in Entries :
          LET words == input.fs[Entry(e).file][Entry(e).line + 1]
          IN /\ Len(words) >= 2 /\ words[1] = e[1]
             /\ Entry(e).word \in 1..(Len(words) - 1)
             /\ words[Entry(e).word + 1] = Entry(e).option
    /\ pc = "rc_loop" =>
          /\ "startup" \in DOMAIN rcoptions_
          /\ LET n == Len(rcoptions_["startup"])
             IN /\ n >= 1
                /\ SizeMinusOne(n) = n - 1
                /\ i >= 0 /\ i <= n
                /\ RcLoopCond => i + 1 <= n - 1

\* The 'startup' group of one entry is found although a file had a
\* 'startup' line without words.
C18_Witness ==
    /\ pc = "rc_loop"
    /\ Len(rcoptions_["startup"]) = 1
    /\ KeywordAlone("startup")
    /\ i = 0

\* A 'startup' line without words and no other: there is no group.
C18_WitnessNoGroup ==
    /\ pc = "done"
    /\ KeywordAlone("startup")
    /\ "startup" \notin DOMAIN rcoptions_

\* The files being parsed, from the root to the current one, each the
\* file named by the import line its parent stands at.
CallChainOk ==
    /\ imports[frames[1].index + 1].parent = -1
    /\ \A k \in 1..(Len(frames) - 1) :
          /\ input.fs[frames[k].filename][frames[k].line + 1]
               = <<"import", frames[k + 1].filename>>
          /\ imports[frames[k + 1].index + 1]
               = [parent |-> frames[k].index, line |-> frames[k].line]

\* C19: while a root file is being resolved the import stack is the chain
\* of the names of the files being parsed, the root first and the current
\* file last, each imported by the one before it, and no name is on it
\* twice; when the parse of an imported file returns, the stack is what it
\* was before the import.
C19_ImportStackIsCallChain ==
    /\ [](Parsing =>
             /\ frames # <<>>
             /\ import_stack = [k \in 1..Len(frames) |-> frames[k].filename]
             /\ CallChainOk
             /\ NoRepeat(import_stack))
    /\ [][(Parsing /\ Parsing' /\ Len(frames') = Len(frames) + 1) =>
             import_stack' = Append(import_stack, frames'[Len(frames')].filename)]_vars
    /\ [][(Parsing /\ Parsing' /\ Len(frames') = Len(frames) - 1) =>
             /\ import_stack' = SubSeq(import_stack, 1, Len(import_stack) - 1)
             /\ import_stack' = [k \in 1..Len(frames') |-> frames'[k].filename]]_vars
    /\ [][(Parsing /\ ~Parsing' /\ pc' # "died") => import_stack' = <<>>]_vars

\* A file is being parsed for the second time, imported by the same file
\* as the first time, two files deep on the import stack.
C19_Witness ==
    /\ Parsing /\ Len(import_stack) >= 2 /\ Top.read
    /\ Top.index = Len(blazercs_) - 1
    /\ \E a \in 1..(Len(blazercs_) - 1) :
          /\ blazercs_[a].filename = Top.filename
          /\ imports[a].parent = imports[Len(blazercs_)].parent

\* A file imported under the first root is being parsed again under the
\* second root.
C19_WitnessLaterRoot ==
    /\ pc = "parse_user" /\ Len(import_stack) >= 2 /\ Top.read
    /\ \E a \in 1..Len(blazercs_) :
          /\ a - 1 < frames[1].index
          /\ blazercs_[a].filename = Top.filename

\* The file an entry's index names.
OriginOf(e) == blazercs_[Entry(e).rcfile_index + 1]

\* C20: in every state each entry's index is the index of a registered
\* file, and that file is the one from whose line the entry's text was
\* read; the file name passed to ProcessArg with a 'startup' entry is the
\* name of that file, and the index in an entry's --default_override is
\* the place of that file's --rc_source.
C20_EntriesKeepTheirOrigin ==
    /\ \A e \in Entries :
          /\ Entry(e).rcfile_index >= 0
          /\ Entry(e).rcfile_index < Len(blazercs_)
          /\ OriginOf(e).index = Entry(e).rcfile_index
          /\ OriginOf(e).filename = Entry(e).file
          /\ Entry(e).line < Len(input.fs[OriginOf(e).filename])
          /\ LET words == input.fs[OriginOf(e).filename][Entry(e).line + 1]
             IN /\ Entry(e).word < Len(words)
                /\ words[1] = e[1]
                /\ words[Entry(e).word + 1] = Entry(e).option
    /\ \A b \in RcCalls :
          LET e == <<"startup", applied[b].pos + 1>>
          IN /\ e \in Entries
             /\ applied[b].arg = Entry(e).option
             /\ applied[b].rcfile = Entry(e).file
    /\ Emitted =>
          \A e \in NonStartup :
             /\ OverrideText(e) \in Range(Overrides)
             /\ command_arguments_[Entry(e).rcfile_index + 1]
                  = "--rc_source=" \o Entry(e).file

\* Entries read from a file after an import of that file had added files:
\* a 'startup' entry passed to ProcessArg and an entry with its
\* --default_override.
C20_Witness ==
    /\ Emitted
    /\ \E e \in NonStartup : \E j \in 1..Len(blazercs_) :
          /\ imports[j].parent = Entry(e).rcfile_index
          /\ imports[j].line < Entry(e).line
          /\ Entry(e).rcfile_index < Len(blazercs_) - 1
    /\ \E b \in RcCalls : \E j \in 1..Len(blazercs_) :
          LET e == <<"startup", applied[b].pos + 1>>
          IN /\ imports[j].parent = Entry(e).rcfile_index
             /\ imports[j].line < Entry(e).line
             /\ applied[b].rcfile = blazercs_[imports[j].parent + 1].filename

====
